---- MODULE Spec2Model ----
(***************************************************************************)
(* Model of src/trackformer/models/ops/setup_settings.py: the CUDA         *)
(* environment verifier (_verify_cuda_environment) and the platform        *)
(* dispatch that assembles the extension settings                          *)
(* (get_extensions_settings).                                              *)
(*                                                                         *)
(* Python values are modelled as follows.                                  *)
(*   - An optional string (os.environ.get, torch.version.cuda, CUDA_HOME)  *)
(*     is a record [set, v]; set = FALSE is None.                          *)
(*   - A string whose characters the code inspects (torch.version.cuda,    *)
(*     the nvcc --version output) is a sequence of one-character strings.  *)
(*   - A path is a sequence of components; a Path object and a str are     *)
(*     told apart by the tag of the record that carries them.              *)
(***************************************************************************)
EXTENDS Naturals, Sequences, FiniteSets

VARIABLES
    platform,           \* platform.system()
    torch,              \* the installed torch, or TorchMissing
    environ,            \* os.environ: CUDA_HOME and CUDA_PATH
    fs,                 \* the nvcc executables that exist on disk
    call,               \* "none", "verify" or "resolve": the function that ran
    ver,                \* what _verify_cuda_environment did and returned
    out,                \* how get_extensions_settings ended
    stdout,             \* the lines printed, in order
    cpu_source_paths,   \* the local of get_extensions_settings
    cuda_source_paths   \* the local of get_extensions_settings

vars == <<platform, torch, environ, fs, call, ver, out, stdout,
          cpu_source_paths, cuda_source_paths>>

envVars == <<platform, torch, environ, fs>>

----------------------------------------------------------------------------
(* Bounds of the model. *)

MaxNvccFiles == 1
MaxCpuSources == 1
MaxCudaSources == 1

----------------------------------------------------------------------------
(* Python values. *)

None == [set |-> FALSE, v |-> ""]
Some(s) == [set |-> TRUE, v |-> s]

NoneChars == [set |-> FALSE, v |-> <<>>]
SomeChars(cs) == [set |-> TRUE, v |-> cs]

\* bool(x) of an optional str: None and "" are falsy.
Truthy(x) == x.set /\ x.v # ""

\* bool(x) of an optional str kept as characters.
TruthyChars(x) == x.set /\ x.v # <<>>

\* a or b, on optional strings.
PyOr(a, b) == IF Truthy(a) THEN a ELSE b

Str(parts) == [type |-> "str", v |-> parts]
PathObj(parts) == [type |-> "Path", v |-> parts]
List(items) == [type |-> "list", v |-> items]

Prefix(s, n) == SubSeq(s, 1, n)

\* s.split(".")[0]
SplitDotFirst(cs) ==
    LET dots == {i \in 1..Len(cs) : cs[i] = "."}
    IN  IF dots = {} THEN cs
        ELSE Prefix(cs, (CHOOSE i \in dots : \A j \in dots : i <= j) - 1)

\* s.lower(), on the letters that occur in the outputs modelled.
Lower(cs) ==
    [i \in 1..Len(cs) |->
        CASE cs[i] = "V" -> "v"
          [] cs[i] = "R" -> "r"
          [] OTHER -> cs[i]]

\* a in b, on strings.
IsSubstring(a, b) ==
    \E i \in 0..Len(b) : i + Len(a) <= Len(b) /\ SubSeq(b, i + 1, i + Len(a)) = a

----------------------------------------------------------------------------
(* The environment. *)

Platforms == {"Linux", "Windows", "Darwin", "FreeBSD"}

V121 == <<"1", "2", ".", "1">>
V118 == <<"1", "1", ".", "8">>

HomeA == "/opt/cuda-a"
HomeB == "/opt/cuda-b"
HomeC == "/usr/local/cuda"
Homes == {HomeA, HomeB, HomeC}

TorchMissing ==
    [importable |-> FALSE, cuda_is_available |-> FALSE, cuda_is_built |-> FALSE,
     version_cuda |-> NoneChars, CUDA_HOME |-> None, library_paths_kw |-> "cuda"]

TorchInstalled ==
    [importable : {TRUE}, cuda_is_available : BOOLEAN, cuda_is_built : BOOLEAN,
     version_cuda : {NoneChars, SomeChars(<<>>), SomeChars(V121), SomeChars(V118)},
     CUDA_HOME : {None, Some(HomeC)},
     library_paths_kw : {"cuda", "device_type"}]

Environs ==
    [CUDA_HOME : {None, Some(""), Some(HomeA)},
     CUDA_PATH : {None, Some(""), Some(HomeB)}]

NvccCandidates == {<<h, "bin", e>> : h \in Homes, e \in {"nvcc", "nvcc.exe"}}

\* What os.popen('"nvcc" --version').read() gives: an exception, or the output.
NvccQueries ==
    {[raises |-> TRUE, text |-> <<>>],
     [raises |-> FALSE, text |-> <<"R", "e", "l", " ">> \o V121 \o <<",", " ", "V">> \o V121],
     [raises |-> FALSE, text |-> <<"R", "e", "l", " ">> \o V118 \o <<",", " ", "V">> \o V118]}

----------------------------------------------------------------------------
(* _verify_cuda_environment *)

MsgUnsupported == "Unsupported platform to build this on with CUDA support."
MsgNoTorch == "PyTorch must be installed BEFORE building ha4detr."
MsgNoDevice == "PyTorch reports that CUDA is NOT available on this system."
MsgNotBuilt == "Your PyTorch build was compiled WITHOUT CUDA."
MsgNoVersion == "Torch does not expose a valid CUDA version (torch.version.cuda)."
MsgNoHome == "CUDA_HOME / CUDA_PATH is not set."
MsgNoNvcc == "nvcc not found at expected path"
MsgIncomplete == "Your CUDA installation is incomplete or incorrect."
MsgStars == "*************************************************************"
MsgMismatch == "* WARNING: CUDA version mismatch between PyTorch and system *"
MsgMayWork == "* This may still work, but is not guaranteed.               *"
MsgTorchCuda == "* Torch CUDA:"
MsgNvccOutput == "* nvcc --version output:"
MsgOk == "CUDA environment OK"

\* The calls the verifier makes on its surroundings, in the order of the source.
ProbePlatform == "platform.system"
ProbeImport == "import torch"
ProbeDevice == "torch.cuda.is_available"
ProbeBuilt == "torch.backends.cuda.is_built"
ProbeVersion == "torch.version.cuda"
ProbeHome == "cuda_home"
ProbeNvcc == "nvcc.exists"
ProbeQuery == "nvcc --version"

\* _IS_WINDOWS_BUILD, set when the module is loaded.
IsWindowsBuild == platform = "Windows"

\* system not in ("Windows", "Linux") is the negation of this.
PlatformSupported(system) == system \in {"Windows", "Linux"}

ResolveCudaHomeSwapped == PyOr(PyOr(environ.CUDA_PATH, environ.CUDA_HOME), torch.CUDA_HOME)

\* os.environ.get("CUDA_HOME") or os.environ.get("CUDA_PATH") or CUDA_HOME
ResolveCudaHome == PyOr(PyOr(environ.CUDA_HOME, environ.CUDA_PATH), torch.CUDA_HOME)

ExePostfix == IF IsWindowsBuild THEN "nvcc.exe" ELSE "nvcc"

\* Path(cuda_home) / "bin" / exe_postfix
NvccPath(cuda_home) == <<cuda_home.v, "bin", ExePostfix>>

NvccExistsAlways(nvcc) == TRUE

\* nvcc.exists()
NvccExists(nvcc) == nvcc \in fs

\* os.popen(...).read().lower(), "" when the call raises.
SystemNvccOutput(q) == IF q.raises THEN <<>> ELSE Lower(q.text)

\* torch_major not in system_nvcc_output
VersionMismatch(torch_cuda, output) == ~IsSubstring(SplitDotFirst(torch_cuda.v), output)

\* The value returned after the version comparison: True, whatever it found.
VerdictAfterVersionCheck(mismatch) == TRUE

NotCalled ==
    [called |-> FALSE, ok |-> FALSE, skipped |-> FALSE, reason |-> "", log |-> <<>>,
     probes |-> <<>>, cuda_home |-> None, nvcc |-> <<>>, queried |-> FALSE,
     output |-> <<>>, warned |-> FALSE]

Failed(reason, log, probes) ==
    [NotCalled EXCEPT !.called = TRUE, !.reason = reason, !.log = log, !.probes = probes]

\* The verifier, for the answer q that the nvcc --version query would give.
_verify_cuda_environment(q) ==
    LET system == platform
        torch_cuda == torch.version_cuda
        cuda_home == ResolveCudaHome
        nvcc == NvccPath(cuda_home)
        output == SystemNvccOutput(q)
        mismatch == VersionMismatch(torch_cuda, output)
        p1 == <<ProbePlatform>>
        p2 == Append(p1, ProbeImport)
        p3 == Append(p2, ProbeDevice)
        p4 == Append(p3, ProbeBuilt)
        p5 == Append(p4, ProbeVersion)
        p6 == Append(p5, ProbeHome)
        p7 == Append(p6, ProbeNvcc)
        p8 == Append(p7, ProbeQuery)
        warning == <<MsgStars, MsgMismatch, MsgMayWork, MsgTorchCuda, MsgNvccOutput, MsgStars>>
    IN  IF ~PlatformSupported(system)
        THEN [NotCalled EXCEPT !.called = TRUE, !.ok = TRUE, !.skipped = TRUE,
                               !.log = <<MsgUnsupported>>, !.probes = p1]
        ELSE IF ~torch.importable
        THEN Failed(MsgNoTorch, <<MsgNoTorch>>, p2)
        ELSE IF ~torch.cuda_is_available
        THEN Failed(MsgNoDevice, <<MsgNoDevice>>, p3)
        ELSE IF ~torch.cuda_is_built
        THEN Failed(MsgNotBuilt, <<MsgNotBuilt>>, p4)
        ELSE IF ~TruthyChars(torch_cuda)
        THEN Failed(MsgNoVersion, <<MsgNoVersion>>, p5)
        ELSE IF ~Truthy(cuda_home)
        THEN Failed(MsgNoHome, <<MsgNoHome>>, p6)
        ELSE IF ~NvccExists(nvcc)
        THEN [Failed(MsgNoNvcc, <<MsgNoNvcc, MsgIncomplete>>, p7)
                 EXCEPT !.cuda_home = cuda_home, !.nvcc = nvcc]
        ELSE [called |-> TRUE, ok |-> VerdictAfterVersionCheck(mismatch),
              skipped |-> FALSE, reason |-> "",
              log |-> (IF mismatch THEN warning ELSE <<>>) \o <<MsgOk>>,
              probes |-> p8, cuda_home |-> cuda_home, nvcc |-> nvcc,
              queried |-> TRUE, output |-> output, warned |-> mismatch]

----------------------------------------------------------------------------
(* Paths and the torch.utils.cpp_extension helpers. *)

\* ROOT = Path(__file__).parent
ROOT == <<"src", "trackformer", "models", "ops">>
SRC == ROOT \o <<"src">>
SRC_BASE == SRC \o <<"ha4detr">>
SRC_CPU == SRC_BASE \o <<"cpu">>
SRC_CUDA == SRC_BASE \o <<"cuda">>

\* The working directory that Path.resolve() puts in front of a relative path.
Cwd == <<"/", "work">>

\* str(p) of a Path with these parts.
StrOf(parts) == Str(parts)

\* p.resolve()
ResolvePath(parts) == Cwd \o parts

\* os.path.relpath(path, ROOT) of a path under ROOT: a str, whatever came in.
rel(p) == Str(SubSeq(p.v, Len(ROOT) + 1, Len(p.v)))

\* p.relative_to(ROOT): a method of Path; a str has no such attribute.
RelativeTo(p) ==
    IF p.type = "Path"
    THEN [raises |-> FALSE, v |-> PathObj(SubSeq(p.v, Len(ROOT) + 1, Len(p.v)))]
    ELSE [raises |-> TRUE, v |-> p]

CpuNames == <<"hungarian.cpp", "bind.cpp", "cost.cpp", "util.cpp">>
CudaNames == <<"hungarian.cu", "reduce.cu", "scan.cu", "util.cu">>

\* SRC_CPU.glob("*.cpp") when the directory holds the first n names.
GlobCpu(n) == [i \in 1..n |-> PathObj(SRC_CPU \o <<CpuNames[i]>>)]

\* SRC_CUDA.glob("*.cu") when the directory holds the first n names.
GlobCuda(n) == [i \in 1..n |-> PathObj(SRC_CUDA \o <<CudaNames[i]>>)]

\* include_paths(): the torch include directories.
include_paths ==
    <<Str(<<"torch", "include">>),
      Str(<<"torch", "include", "torch", "csrc", "api", "include">>)>>

\* library_paths(<kw>=...): the installed torch names its parameter either cuda
\* or device_type; a call with the other keyword is a TypeError.
library_paths(kw) ==
    IF kw = torch.library_paths_kw
    THEN [raises |-> FALSE, v |-> <<Str(<<"torch", "lib">>)>>]
    ELSE [raises |-> TRUE, v |-> <<>>]

----------------------------------------------------------------------------
(* get_extensions_settings *)

MsgCannotBuild ==
    "You cannot run this build on this system - you would need to update it to match requirement!"
MsgDebug == "_debug_print"
MsgBuildingWindows == " building for WINDOWS"
MsgWindowsSources == "my sources for the build are"
MsgLinuxSources == "cuda_sources="

ExtensionName == "ha4detr._hungarian"
RpathFlag == "-Wl,-rpath,$ORIGIN/../torch/lib"

NoOutcome == [kind |-> "none", exc |-> "", msg |-> "", value |-> <<>>]
Returns(value) == [kind |-> "return", exc |-> "", msg |-> "", value |-> value]
Raises(exc, msg) == [kind |-> "raise", exc |-> exc, msg |-> msg, value |-> <<>>]

ConditionStripped(v) == TRUE

\* The condition of the assert statement.
AssertedCondition(v) == v.ok

MessageWithReason(v) == v.reason

\* The message of the assert statement: a fixed text.
AssertedMessage(v) == MsgCannotBuild

\* include_dirs=[local_includes, include_dirs]
LinuxIncludeDirs(local_includes, include_dirs) == <<local_includes, List(include_dirs)>>

\* include_dirs = [local_include] + torch_includes
WindowsIncludeDirs(local_include, torch_includes) == <<local_include>> \o torch_includes

GnuArgs == <<"-D_GLIBCXX_USE_CXX11_ABI=1", "-std=c++17">>

\* _get_linux_settings, once library_paths has answered.
LinuxExtension(all_source_paths, library_dirs) ==
    [ext |-> "CUDAExtension",
     name |-> ExtensionName,
     sources |-> all_source_paths,
     include_dirs |-> LinuxIncludeDirs(StrOf(SRC_BASE), include_paths),
     library_dirs |-> library_dirs,
     extra_link_args |-> <<RpathFlag>>,
     extra_compile_args |-> [cxx |-> GnuArgs, nvcc |-> GnuArgs]]

\* _get_windows_settings, once library_paths has answered.
WindowsExtension(all_source_paths, library_dirs) ==
    [ext |-> "CUDAExtension",
     name |-> ExtensionName,
     sources |-> all_source_paths,
     include_dirs |-> WindowsIncludeDirs(StrOf(ResolvePath(SRC_BASE)), include_paths),
     library_dirs |-> library_dirs,
     extra_link_args |-> <<>>,
     extra_compile_args |->
         [cxx |-> <<"/std:c++17", "/Zc:__cplusplus">>,
          nvcc |-> <<"-std=c++17", "-Xcompiler=/std:c++17", "-Xcompiler=/Zc:__cplusplus">>]]

\* The CppExtension of the Darwin branch, once its sources are computed.
DarwinExtension(sources) ==
    [ext |-> "CppExtension",
     name |-> ExtensionName,
     sources |-> sources,
     include_dirs |-> <<StrOf(SRC_BASE)>>,
     library_dirs |-> <<>>,
     extra_link_args |-> <<>>,
     extra_compile_args |-> [cxx |-> GnuArgs, nvcc |-> GnuArgs]]

Ended(v, o, printed, cpu, cuda) ==
    [ver |-> v, out |-> o, stdout |-> printed, cpu |-> cpu, cuda |-> cuda]

\* get_extensions_settings, for the answer q of the nvcc --version query and
\* the files that the two globs find.
get_extensions_settings(q, cpuFiles, cudaFiles) ==
    IF ~torch.importable
    THEN Ended(NotCalled, Raises("ImportError", "No module named 'torch'"), <<>>, <<>>, <<>>)
    ELSE
    LET v == _verify_cuda_environment(q)
    IN  IF ~AssertedCondition(v)
        THEN Ended(v, Raises("AssertionError", AssertedMessage(v)), v.log, <<>>, <<>>)
        ELSE
        LET cpu == [i \in 1..Len(cpuFiles) |-> rel(cpuFiles[i])]
            cuda == [i \in 1..Len(cudaFiles) |-> rel(cudaFiles[i])]
            all_source_paths == cpu \o cuda
            system == platform
            printed == Append(v.log, MsgDebug)
        IN  IF IsWindowsBuild
            THEN LET libs == library_paths("cuda")
                     here == Append(printed, MsgBuildingWindows)
                 IN  IF libs.raises
                     THEN Ended(v, Raises("TypeError", "unexpected keyword argument 'cuda'"),
                                here, cpu, cuda)
                     ELSE Ended(v, Returns(<<WindowsExtension(all_source_paths, libs.v)>>),
                                Append(here, MsgWindowsSources), cpu, cuda)
            ELSE IF system = "Linux"
            THEN LET libs == library_paths("device_type")
                 IN  IF libs.raises
                     THEN Ended(v, Raises("TypeError", "unexpected keyword argument 'device_type'"),
                                printed, cpu, cuda)
                     ELSE Ended(v, Returns(<<LinuxExtension(all_source_paths, libs.v)>>),
                                Append(printed, MsgLinuxSources), cpu, cuda)
            ELSE IF system = "Darwin"
            THEN IF \E i \in 1..Len(cpu) : RelativeTo(cpu[i]).raises
                 THEN Ended(v, Raises("AttributeError",
                                      "'str' object has no attribute 'relative_to'"),
                            printed, cpu, cuda)
                 ELSE Ended(v, Returns(<<DarwinExtension(
                                [i \in 1..Len(cpu) |-> StrOf(RelativeTo(cpu[i]).v.v)])>>),
                            printed, cpu, cuda)
            ELSE Ended(v, Returns(<<>>), printed, cpu, cuda)

----------------------------------------------------------------------------
(* The state machine: an environment, and one call into the module. *)

Init ==
    /\ platform \in Platforms
    /\ torch \in TorchInstalled \cup {TorchMissing}
    /\ environ \in Environs
    /\ fs \in {F \in SUBSET NvccCandidates : Cardinality(F) <= MaxNvccFiles}
    /\ call = "none"
    /\ ver = NotCalled
    /\ out = NoOutcome
    /\ stdout = <<>>
    /\ cpu_source_paths = <<>>
    /\ cuda_source_paths = <<>>

\* A direct call of _verify_cuda_environment().
Verify ==
    /\ call = "none"
    /\ \E q \in NvccQueries :
        LET v == _verify_cuda_environment(q)
        IN  /\ ver' = v
            /\ stdout' = v.log
    /\ call' = "verify"
    /\ UNCHANGED <<envVars, out, cpu_source_paths, cuda_source_paths>>

\* A call of get_extensions_settings(), as setup.py makes it.
Resolve ==
    /\ call = "none"
    /\ \E q \in NvccQueries, n \in 0..MaxCpuSources, m \in 0..MaxCudaSources :
        LET r == get_extensions_settings(q, GlobCpu(n), GlobCuda(m))
        IN  /\ ver' = r.ver
            /\ out' = r.out
            /\ stdout' = r.stdout
            /\ cpu_source_paths' = r.cpu
            /\ cuda_source_paths' = r.cuda
    /\ call' = "resolve"
    /\ UNCHANGED envVars

Next == Verify \/ Resolve

Spec == Init /\ [][Next]_vars

----------------------------------------------------------------------------
(* What the environment says about each check, read off the environment      *)
(* alone, in the order the specification numbers the checks (1 to 7).        *)

OnCudaPlatform == platform \in {"Linux", "Windows"}

\* The toolkit home by the documented precedence; "" when none resolves.
ExpectedHome ==
    IF Truthy(environ.CUDA_HOME) THEN environ.CUDA_HOME.v
    ELSE IF Truthy(environ.CUDA_PATH) THEN environ.CUDA_PATH.v
    ELSE IF Truthy(torch.CUDA_HOME) THEN torch.CUDA_HOME.v
    ELSE ""

ExpectedExe == IF platform = "Windows" THEN "nvcc.exe" ELSE "nvcc"

CheckPasses(i) ==
    CASE i = 1 -> OnCudaPlatform
      [] i = 2 -> torch.importable
      [] i = 3 -> torch.cuda_is_available
      [] i = 4 -> torch.cuda_is_built
      [] i = 5 -> torch.version_cuda.set /\ Len(torch.version_cuda.v) > 0
      [] i = 6 -> ExpectedHome # ""
      [] i = 7 -> <<ExpectedHome, "bin", ExpectedExe>> \in fs

ChecksPassUpTo(n) == \A i \in 2..n : CheckPasses(i)

\* The first of the checks 2 to 7 that fails; 0 when none does.
FirstFailing ==
    IF ChecksPassUpTo(7) THEN 0
    ELSE CHOOSE i \in 2..7 : ~CheckPasses(i) /\ \A j \in 2..(i - 1) : CheckPasses(j)

CheckOrder ==
    <<ProbePlatform, ProbeImport, ProbeDevice, ProbeBuilt, ProbeVersion, ProbeHome, ProbeNvcc>>

ReasonOf == <<"", MsgNoTorch, MsgNoDevice, MsgNotBuilt, MsgNoVersion, MsgNoHome, MsgNoNvcc>>

Printed(line) == \E i \in 1..Len(stdout) : stdout[i] = line

Returned == call = "resolve" /\ out.kind = "return"

IsAbortError == out.kind = "raise" /\ out.exc = "AssertionError"

IsCudaSource(s) == \E j \in 1..Len(CudaNames) : s.v[Len(s.v)] = CudaNames[j]

UsesAccelerator(d) ==
    \/ d.ext = "CUDAExtension"
    \/ \E i \in 1..Len(d.sources) : IsCudaSource(d.sources[i])

----------------------------------------------------------------------------
(* The claims. *)

C2_DarwinCpuFallback ==
    (call = "resolve" /\ platform = "Darwin")
        => /\ ~ver.called
           /\ out.kind = "return"
           /\ Len(out.value) = 1
           /\ ~UsesAccelerator(out.value[1])
           /\ Len(out.value[1].sources) = Len(cpu_source_paths)

\* C3: on a platform other than Linux, Windows and Darwin resolve returns the
\* empty descriptor and never raises, torch importable or not.
C3_OtherPlatformEmpty ==
    (call = "resolve" /\ platform \notin {"Linux", "Windows", "Darwin"})
        => (out.kind = "return" /\ out.value = <<>>)

\* C4: resolve either returns a descriptor or raises the abort error; with
\* torch not importable on Linux or Windows the verifier's "runtime missing"
\* verdict is what surfaces, as that abort error.
C4_ReturnOrAbort ==
    /\ call = "resolve" => (out.kind = "return" \/ IsAbortError)
    /\ (call = "resolve" /\ OnCudaPlatform /\ ~torch.importable)
        => (ver.called /\ ver.reason = MsgNoTorch /\ IsAbortError)

\* C5: a returned descriptor uses the accelerator only if the verifier ran
\* all of the checks 2 to 7 and returned ok=true; a soft-pass or a failed
\* verification never leads to one.
C5_AcceleratorOnlyIfVerified ==
    (Returned /\ \E i \in 1..Len(out.value) : UsesAccelerator(out.value[i]))
        => /\ ver.called /\ ver.ok /\ ~ver.skipped
           /\ OnCudaPlatform
           /\ ChecksPassUpTo(7)
           /\ \A k \in 1..Len(CheckOrder) : \E j \in 1..Len(ver.probes) : ver.probes[j] = CheckOrder[k]

\* C5 witness: resolve returned a CUDA extension holding an accelerator source.
C5_Witness ==
    /\ Returned
    /\ Len(out.value) = 1
    /\ out.value[1].ext = "CUDAExtension"
    /\ \E i \in 1..Len(out.value[1].sources) : IsCudaSource(out.value[1].sources[i])

\* C6: on Linux and Windows the verifier makes its checks in the fixed order
\* and stops at the first that fails: the result is ok=false with the reason
\* of the first failing check, nothing is probed after it, and ok=true is
\* returned only when the checks 2 to 7 all pass.
C6_FirstFailingCheckDecides ==
    (ver.called /\ OnCudaPlatform)
        => IF FirstFailing = 0
           THEN /\ ver.ok
                /\ ver.probes = Append(CheckOrder, ProbeQuery)
           ELSE /\ ~ver.ok
                /\ ver.reason = ReasonOf[FirstFailing]
                /\ ver.log[1] = ReasonOf[FirstFailing]
                /\ ver.probes = Prefix(CheckOrder, FirstFailing)
                /\ ~ver.queried

\* C6 witness: the verifier ran where the device is missing and, further down
\* the order, the toolkit home resolves but holds no compiler.
C6_Witness ==
    /\ call = "verify" /\ OnCudaPlatform
    /\ torch.importable /\ ~torch.cuda_is_available
    /\ ExpectedHome # "" /\ ~CheckPasses(7)
    /\ ver.reason = MsgNoDevice

\* C7: the toolkit home is CUDA_HOME if set (and not empty), else CUDA_PATH if
\* set, else the default torch reports; the verifier fails with "toolkit home
\* not set" exactly when none of the three resolves.
C7_ToolkitHomePrecedence ==
    (ver.called /\ OnCudaPlatform /\ ChecksPassUpTo(5))
        => /\ (~ver.ok /\ ver.reason = MsgNoHome) <=> (ExpectedHome = "")
           /\ ExpectedHome # ""
                => /\ ver.cuda_home.v = ExpectedHome
                   /\ ver.nvcc = <<ExpectedHome, "bin", ExpectedExe>>

\* C7 witness: the verifier resolved the home with all three sources set.
C7_Witness ==
    /\ call = "verify" /\ OnCudaPlatform /\ ChecksPassUpTo(5)
    /\ Truthy(environ.CUDA_HOME) /\ Truthy(environ.CUDA_PATH) /\ Truthy(torch.CUDA_HOME)
    /\ ver.cuda_home = environ.CUDA_HOME

\* C8: when the checks 1 to 7 pass the verifier returns ok=true whether the
\* compiler's major version matches, mismatches or could not be queried, and
\* resolve on Linux and Windows then returns a non-empty descriptor.
C8_VersionCheckNeverDecides ==
    /\ (ver.called /\ OnCudaPlatform /\ ChecksPassUpTo(7)) => ver.ok
    /\ (call = "resolve" /\ OnCudaPlatform /\ ChecksPassUpTo(7))
        => (out.kind = "return" /\ Len(out.value) > 0)

\* C9: the descriptor returned for macOS holds the local include directory
\* only, no entry for the accelerator toolchain in its compiler flags, no
\* library directories, no linker flags and no accelerator source.
C9_DarwinNoAcceleratorFlags ==
    (Returned /\ platform = "Darwin" /\ Len(out.value) = 1)
        => LET d == out.value[1]
           IN  /\ Len(d.include_dirs) = 1
               /\ d.include_dirs[1].type = "str"
               /\ d.include_dirs[1].v = SRC_BASE
               /\ "nvcc" \notin DOMAIN d.extra_compile_args
               /\ d.library_dirs = <<>>
               /\ d.extra_link_args = <<>>
               /\ \A i \in 1..Len(d.sources) : ~IsCudaSource(d.sources[i])

\* C10: the Linux and the Windows descriptor hold the CPU sources followed by
\* the accelerator sources, and include directories that are a flat sequence
\* of paths, the local directory first and then each torch include path; the
\* Linux one also has the rpath flag and the same flags for both toolchains.
C10_DescriptorsWellFormed ==
    (Returned /\ OnCudaPlatform /\ Len(out.value) = 1)
        => LET d == out.value[1]
           IN  /\ d.sources = cpu_source_paths \o cuda_source_paths
               /\ \A i \in 1..Len(d.include_dirs) : d.include_dirs[i].type = "str"
               /\ Len(d.include_dirs) = 1 + Len(include_paths)
               /\ platform = "Linux"
                    => /\ d.extra_link_args = <<RpathFlag>>
                       /\ d.extra_compile_args.cxx = d.extra_compile_args.nvcc

====
